---- MODULE Spec2Model ----
(***************************************************************************)
(* gulp-ts-swagger (src/index.ts): the plugin factory gulpSwagger and the  *)
(* per-file pipeline GulpTypeScriptSwaggerFile, as a state machine.        *)
(*                                                                         *)
(* JavaScript values are tagged records: the field t is the typeof tag.   *)
(* Strings the code indexes into (the codegen type) are sequences of      *)
(* one-character strings, field s; opaque strings are TLA+ strings, v.     *)
(***************************************************************************)
EXTENDS Integers, Sequences, FiniteSets, TLC

\* ------------------------------------------------------------------ bounds
\* Number of files pushed through one stream returned by gulpSwagger.
NumFiles == 2
\* Largest number of errors, and of warnings, one validation result carries.
MaxFindings == 1

Files == 1..NumFiles

\* ------------------------------------------------------- JavaScript values
Undefined == [t |-> "undefined"]
Null == [t |-> "null"]
Str(v) == [t |-> "string", v |-> v]
Bool(b) == [t |-> "boolean", b |-> b]
\* An indexable string: s is its sequence of characters.
Chars(s) == [t |-> "string", s |-> s]

PLUGIN_NAME == "gulp-ts-swagger"

\* new gutil.PluginError(PLUGIN_NAME, message)
PluginError(message) ==
    [t |-> "PluginError", plugin |-> PLUGIN_NAME, message |-> message]

\* An exception of the JavaScript runtime (member access on undefined, call
\* of a non-function).
TypeError(message) == [t |-> "TypeError", message |-> message]

\* An error value produced by an external engine.
EngineError(message) == [t |-> "Error", message |-> message]

\* !x for the values the configuration handles.
Falsy(x) ==
    \/ x.t \in {"undefined", "null"}
    \/ x.t = "string" /\ "v" \in DOMAIN x /\ x.v = ""
    \/ x.t = "string" /\ "s" \in DOMAIN x /\ x.s = <<>>

\* typeof x
TypeOf(x) == IF x.t = "null" THEN "object" ELSE x.t

\* --------------------------------------------------------------- characters
Lower == <<"a", "c", "d", "e", "g", "l", "m", "n", "o", "r", "s", "t", "u", "v">>
Upper == <<"A", "C", "D", "E", "G", "L", "M", "N", "O", "R", "S", "T", "U", "V">>

\* String.prototype.toUpperCase on one character.
ToUpperCase(c) ==
    IF \E i \in 1..Len(Lower) : Lower[i] = c
    THEN Upper[CHOOSE i \in 1..Len(Lower) : Lower[i] = c]
    ELSE c

\* String.prototype.slice(from, to) with 0-based JavaScript indices.
Slice(s, from, to) == SubSeq(s, from + 1, to)

nodeType == <<"n", "o", "d", "e">>
angularType == <<"a", "n", "g", "u", "l", "a", "r">>
customType == <<"c", "u", "s", "t", "o", "m">>
\* A type the emission engine has no entry point for.
vueType == <<"v", "u", "e">>

getPrefix == <<"g", "e", "t">>
codeSuffix == <<"C", "o", "d", "e">>

\* ---------------------------------------------------------------- documents
\* A schema value and the two kinds of reference that may stand in its place.
Schema(type) == [t |-> "object", type |-> type]
InternalRef(target) == [t |-> "object", ref |-> "internal", target |-> target]
ExternalRef(target) == [t |-> "object", ref |-> "external", target |-> target]

IsRef(x) == "ref" \in DOMAIN x
IsInternalRef(x) == IsRef(x) /\ x.ref = "internal"
IsExternalRef(x) == IsRef(x) /\ x.ref = "external"

\* A document with one cross-document and one intra-document reference.
PetsDoc ==
    [name |-> "pets.json",
     definitions |-> [Pet |-> Schema("object")],
     paths |-> ("/pets" :>
        [post |-> [parameters |-> <<[in |-> "query", schema |-> Undefined],
                                   [in |-> "body", schema |-> InternalRef("Pet")]>>,
                  responses |-> ("200" :> [schema |-> ExternalRef("Error")]
                                 @@ "default" :> [schema |-> Undefined])]])]

\* A document without references (one operation GET /items).
ItemsDoc ==
    [name |-> "items.json",
     definitions |-> [Pet |-> Schema("object")],
     paths |-> ("/items" :>
        [get |-> [parameters |-> <<>>,
                  responses |-> ("200" :> [schema |-> Schema("array")])]])]

SourceDocs == <<PetsDoc, ItemsDoc>>

\* The document the f-th file of the stream holds.
DocOf(f) == SourceDocs[((f - 1) % Len(SourceDocs)) + 1]

\* What a cross-document reference points at.
ExternalTarget(target) == Schema("string")

\* The schema sites of a document: each parameter and each response of each
\* operation.
ParameterSites(doc) ==
    UNION {UNION {{<<p, m, i>> : i \in DOMAIN doc.paths[p][m].parameters} :
                  m \in DOMAIN doc.paths[p]} : p \in DOMAIN doc.paths}
ResponseSites(doc) ==
    UNION {UNION {{<<p, m, c>> : c \in DOMAIN doc.paths[p][m].responses} :
                  m \in DOMAIN doc.paths[p]} : p \in DOMAIN doc.paths}
ParameterSchema(doc, x) == doc.paths[x[1]][x[2]].parameters[x[3]].schema
ResponseSchema(doc, x) == doc.paths[x[1]][x[2]].responses[x[3]].schema

HasExternalRefs(doc) ==
    \/ \E x \in ParameterSites(doc) : IsExternalRef(ParameterSchema(doc, x))
    \/ \E x \in ResponseSites(doc) : IsExternalRef(ResponseSchema(doc, x))
HasInternalRefs(doc) ==
    \/ \E x \in ParameterSites(doc) : IsInternalRef(ParameterSchema(doc, x))
    \/ \E x \in ResponseSites(doc) : IsInternalRef(ResponseSchema(doc, x))
HasRefs(doc) == HasExternalRefs(doc) \/ HasInternalRefs(doc)

\* The resolution engine on one schema site: cross-document references are
\* always followed, intra-document ones only when options.$refs.internal.
DerefSchema(x, doc, internal) ==
    IF IsExternalRef(x) THEN ExternalTarget(x.target)
    ELSE IF IsInternalRef(x) /\ internal THEN doc.definitions[x.target]
    ELSE x

\* swaggerParser.dereference(source, {$refs: {internal: internal}}) when it succeeds.
Dereference(doc, internal) ==
    [doc EXCEPT !.paths = [p \in DOMAIN doc.paths |->
        [m \in DOMAIN doc.paths[p] |->
            [parameters |-> [i \in DOMAIN doc.paths[p][m].parameters |->
                [doc.paths[p][m].parameters[i] EXCEPT
                    !.schema = DerefSchema(@, doc, internal)]],
             responses |-> [c \in DOMAIN doc.paths[p][m].responses |->
                [doc.paths[p][m].responses[c] EXCEPT
                    !.schema = DerefSchema(@, doc, internal)]]]]]]

\* The policy object process() passes: $refs.internal is false.
dereferenceOptions == [internal |-> FALSE]

\* JSON.stringify(x): a string whose text denotes x.
Stringify(x) == [t |-> "string", json |-> x]

\* path.join(base, filename)
PathJoin(base, filename) == [t |-> "string", dir |-> base, file |-> filename]

\* The vinyl file the stream hands to throughObj for a source document.
VinylFile(doc, stream) ==
    [history |-> <<doc.name>>, cwd |-> "/project", base |-> "/project/api",
     isStream |-> stream]

\* The document stored at a file's path.
DocumentAt(path) == SourceDocs[CHOOSE i \in DOMAIN SourceDocs : SourceDocs[i].name = path]

\* ------------------------------------------------------------ buildJSONSchema
EmptyObject == [t |-> "object"]

\* A value that is null or undefined.
IsNullish(x) == "t" \in DOMAIN x /\ x.t \in {"undefined", "null"}

\* x[name], undefined when the object has no such property.
Field(x, name) == IF name \in DOMAIN x THEN x[name] ELSE Undefined

\* A selection that skips body parameters carrying no schema.
RequestSchemaFirstWithSchema(parameters) ==
    LET body == SelectSeq(parameters,
                    LAMBDA parameter : parameter.in = "body"
                                         /\ ~Falsy(Field(parameter, "schema")))
    IN  IF body = <<>> THEN Undefined ELSE Field(body[1], "schema")

\* (parameters || []).filter(in === "body")[0] || {}, then .schema
RequestSchema(parameters) ==
    LET body == SelectSeq(parameters, LAMBDA parameter : parameter.in = "body")
    IN  IF body = <<>> THEN Undefined ELSE Field(body[1], "schema")

\* The response schema without the "|| {}" default.
ResponseSchemaNoDefault(response) == Field(response, "schema")

\* methodResponses[currentResponse].schema || {}
ResponseSchemaOrEmpty(response) ==
    IF Falsy(Field(response, "schema")) THEN EmptyObject
    ELSE Field(response, "schema")

\* pathMethods[currentMethod].parameters || []
MethodParameters(operation) ==
    IF "parameters" \in DOMAIN operation THEN operation.parameters ELSE <<>>

\* pathMethods[currentMethod].responses || {}
MethodResponses(operation) ==
    IF "responses" \in DOMAIN operation THEN operation.responses ELSE <<>>

\* swaggerObject.paths as the for-in loop sees it: nothing to visit when absent.
PathsOf(swaggerObject) ==
    IF "paths" \in DOMAIN swaggerObject /\ ~IsNullish(swaggerObject.paths)
    THEN swaggerObject.paths ELSE <<>>

\* swaggerObject.paths[currentPath] || {}
PathMethodsOf(entry) == IF IsNullish(entry) THEN <<>> ELSE entry

\* Whether buildJSONSchema raises a TypeError: it reads .parameters of an
\* operation entry (line 87) and .schema of a response definition (line 96)
\* without a default for the entry itself.
BuildJSONSchemaThrows(swaggerObject) ==
    \E currentPath \in DOMAIN PathsOf(swaggerObject) :
        LET pathMethods == PathMethodsOf(PathsOf(swaggerObject)[currentPath])
        IN  \E currentMethod \in DOMAIN pathMethods :
                \/ IsNullish(pathMethods[currentMethod])
                \/ \E currentResponse \in
                        DOMAIN MethodResponses(pathMethods[currentMethod]) :
                      IsNullish(MethodResponses(pathMethods[currentMethod])[currentResponse])

\* buildJSONSchema (lines 81-111): the index it returns when it raises no
\* TypeError.
BuildJSONSchema(swaggerObject) ==
    [currentPath \in DOMAIN PathsOf(swaggerObject) |->
        LET pathMethods == PathMethodsOf(PathsOf(swaggerObject)[currentPath])
        IN  [currentMethod \in DOMAIN pathMethods |->
                [request |-> RequestSchema(MethodParameters(pathMethods[currentMethod])),
                 responses |->
                    [currentResponse \in
                            DOMAIN MethodResponses(pathMethods[currentMethod]) |->
                        ResponseSchemaOrEmpty(
                            MethodResponses(pathMethods[currentMethod])[currentResponse])]]]]

\* ------------------------------------------------------------- configuration
\* Template files on disk and what fs.readFileSync may return for them.
TemplateFiles == {"class.mustache", "method.mustache", "request.mustache"}
FileContents == {"", "{{template}}"}
Disks == [TemplateFiles -> FileContents]

CouldNotLoad(templateName) ==
    CASE templateName = "class" ->
            "Could not load class template file. Please make sure path to file is correct."
      [] templateName = "method" ->
            "Could not load method template file. Please make sure path to file is correct."
      [] OTHER ->
            "Could not load request template file. Please make sure path to file is correct."

\* loadTemplateFile: the text, or the PluginError it throws.
LoadTemplateFile(templateFile, templateName, disk) ==
    IF templateFile.t # "string" \/ templateFile.v = ""
    THEN [ok |-> TRUE, value |-> Str("")]
    ELSE IF disk[templateFile.v] = ""
         THEN [ok |-> FALSE, error |-> PluginError(CouldNotLoad(templateName))]
         ELSE [ok |-> TRUE, value |-> Str(disk[templateFile.v])]

\* The options a caller may pass.
TemplateObject(class, method, request) ==
    [t |-> "object", class |-> class, method |-> method, request |-> request]
CodeGenSettingsObject(type, template) ==
    [t |-> "object", type |-> type, moduleName |-> Undefined, className |-> Undefined,
     template |-> template, esnext |-> Undefined, swagger |-> Undefined,
     mustache |-> Undefined]
\* A settings object with every optional field supplied by the caller.
SuppliedSettings ==
    [t |-> "object", type |-> Chars(nodeType), moduleName |-> Str("Pets"),
     className |-> Str("PetsApi"),
     template |-> Undefined, esnext |-> Bool(FALSE), swagger |-> Undefined,
     mustache |-> [t |-> "object", title |-> Str("Pets")]]
\* options.codegen: absent, null, or a settings object.
CodegenArgs ==
    {Undefined, Null,
     CodeGenSettingsObject(Undefined, Undefined),
     CodeGenSettingsObject(Undefined, TemplateObject(Undefined, Undefined, Undefined)),
     CodeGenSettingsObject(Chars(customType), Str("")),
     CodeGenSettingsObject(Chars(customType), TemplateObject(Str(""), Str(""), Str(""))),
     CodeGenSettingsObject(Chars(customType), Str("class.mustache")),
     CodeGenSettingsObject(Chars(customType),
        TemplateObject(Str("class.mustache"), Str("method.mustache"),
                       Str("request.mustache"))),
     CodeGenSettingsObject(Chars(nodeType), Undefined),
     CodeGenSettingsObject(Chars(angularType), Undefined),
     CodeGenSettingsObject(Chars(vueType), Undefined),
     SuppliedSettings}
OptionsObject(name, codegen) ==
    [t |-> "object", filename |-> name, codegen |-> codegen]
FilenameValues == {Undefined, Str("api.ts")}
OptionsArgs ==
    {Undefined} \cup {OptionsObject(n, c) : n \in FilenameValues, c \in CodegenArgs}
FilenameArgs == FilenameValues \cup {o \in OptionsArgs : o.t = "object"}

\* x || d
OrElse(x, d) == IF Falsy(x) THEN d ELSE x

\* The template branch of gulpSwagger (lines 273-294): the settings with the
\* template normalised, or the error thrown.
NormalizeTemplate(settings, disk) ==
    IF settings.type = Chars(customType) /\ Falsy(settings.template)
    THEN [ok |-> FALSE,
          error |-> PluginError("Templates are mandatory for a custom codegen")]
    ELSE IF TypeOf(settings.template) = "string"
    THEN LET template == LoadTemplateFile(settings.template, "class", disk)
         IN  IF template.ok
             THEN [ok |-> TRUE,
                   value |-> [settings EXCEPT !.template =
                                 TemplateObject(template.value, Str(""), Str(""))]]
             ELSE template
    ELSE IF TypeOf(settings.template) = "object"
    THEN LET class == LoadTemplateFile(settings.template.class, "class", disk)
             method == LoadTemplateFile(settings.template.method, "method", disk)
             request == LoadTemplateFile(settings.template.request, "request", disk)
         IN  IF ~class.ok THEN class
             ELSE IF ~method.ok THEN method
             ELSE IF ~request.ok THEN request
             ELSE [ok |-> TRUE,
                   value |-> [settings EXCEPT !.template =
                                 TemplateObject(class.value, method.value, request.value)]]
    ELSE [ok |-> TRUE, value |-> settings]

\* The defaults of gulpSwagger (lines 266-271).
DefaultSettings(codegen) ==
    LET settings == OrElse(codegen, CodeGenSettingsObject(Null, Undefined))
    IN  [settings EXCEPT !.type = OrElse(@, Chars(customType)),
                         !.moduleName = OrElse(@, Str("API")),
                         !.className = OrElse(@, Str("API"))]

\* gulpSwagger(filename, options) up to the creation of the stream: what it
\* leaves in the closure, or the error it throws.
Configure(filenameArg, optionsArg, disk) ==
    LET isObject == TypeOf(filenameArg) = "object"
        options1 == IF isObject THEN filenameArg ELSE optionsArg
        filename1 == IF isObject THEN options1.filename ELSE filenameArg
        options2 == OrElse(options1, OptionsObject(Undefined, Undefined))
        use == TypeOf(options2.codegen) = "object"
        template == NormalizeTemplate(DefaultSettings(options2.codegen), disk)
    IN  IF Falsy(filename1)
        THEN [ok |-> FALSE, error |-> PluginError("A file name is required")]
        ELSE IF ~use
        THEN [ok |-> TRUE, filename |-> filename1, useCodeGen |-> FALSE,
              codeGenSettings |-> Undefined]
        ELSE IF ~template.ok THEN template
        ELSE [ok |-> TRUE, filename |-> filename1, useCodeGen |-> TRUE,
              codeGenSettings |-> template.value]

\* ------------------------------------------------------------------- state
VARIABLES
    configState,      \* "start", "ready" (stream returned) or "failed" (gulpSwagger threw)
    configError,      \* what gulpSwagger threw
    filename,         \* closure of gulpSwagger: the output file name
    useCodeGen,       \* closure of gulpSwagger
    codeGenSettings,  \* closure of gulpSwagger: the one settings object every file shares
    configured,       \* history: codeGenSettings as gulpSwagger left it
    pc,               \* per file: where its GulpTypeScriptSwaggerFile is
    file,             \* per file: the vinyl file given to throughObj
    swaggerObject,    \* per file: this.swaggerObject
    log,              \* per file: the calls made on the collaborators, in order
    thrown            \* per file: the exception that escaped a handler

vars == <<configState, configError, filename, useCodeGen, codeGenSettings,
          configured, pc, file, swaggerObject, log, thrown>>

pipelineVars == <<pc, file, swaggerObject, log, thrown>>
configVars == <<configState, configError, filename, useCodeGen, configured>>

Init ==
    /\ configState = "start"
    /\ configError = Undefined
    /\ filename = Undefined
    /\ useCodeGen = FALSE
    /\ codeGenSettings = Undefined
    /\ configured = Undefined
    /\ pc = [f \in Files |-> "idle"]
    /\ file = [f \in Files |-> Undefined]
    /\ swaggerObject = [f \in Files |-> Undefined]
    /\ log = [f \in Files |-> <<>>]
    /\ thrown = [f \in Files |-> Undefined]

\* ---------------------------------------------------------------- gulpSwagger
GulpSwagger(filenameArg, optionsArg, disk) ==
    LET result == Configure(filenameArg, optionsArg, disk)
    IN  /\ configState = "start"
        /\ IF result.ok
           THEN /\ configState' = "ready"
                /\ filename' = result.filename
                /\ useCodeGen' = result.useCodeGen
                /\ codeGenSettings' = result.codeGenSettings
                /\ configured' = result.codeGenSettings
                /\ UNCHANGED configError
           ELSE /\ configState' = "failed"
                /\ configError' = result.error
                /\ UNCHANGED <<filename, useCodeGen, codeGenSettings, configured>>
        /\ UNCHANGED pipelineVars

\* ------------------------------------------------- GulpTypeScriptSwaggerFile
\* The validation results the conformance checker may hand to its callback.
Finding == [path |-> <<"paths">>, message |-> "finding"]
Findings(n) == [i \in 1..n |-> Finding]
ValidationResults ==
    {[t |-> "object", errors |-> Findings(e), warnings |-> Findings(w)] :
        e \in 0..MaxFindings, w \in 0..MaxFindings}
\* (err, result) pairs: a failed call, a clean document, or findings.
ValidateOutcomes ==
    {[err |-> EngineError("validate failed"), result |-> Undefined],
     [err |-> Undefined, result |-> Undefined]} \cup
    {[err |-> Undefined, result |-> r] : r \in ValidationResults}

\* The entry points swagger-js-codegen's CodeGen object has.
getNodeCode == <<"g", "e", "t", "N", "o", "d", "e", "C", "o", "d", "e">>
getAngularCode == <<"g", "e", "t", "A", "n", "g", "u", "l", "a", "r", "C", "o", "d", "e">>
getCustomCode == <<"g", "e", "t", "C", "u", "s", "t", "o", "m", "C", "o", "d", "e">>
EntryPoints == {getNodeCode, getAngularCode, getCustomCode}

\* What an entry point returns for the settings it is given.
Emit(entry, settings) == [t |-> "string", entry |-> entry, settings |-> settings]

Event(op, arg) == [op |-> op, arg |-> arg]
NoError == [t |-> "undefined"]

\* getCodegenFunction without the toUpperCase of the first letter.
GetCodegenFunctionNoUpperCase(settings) ==
    getPrefix \o settings.type.s \o codeSuffix

\* getCodegenFunction (lines 174-180); reads this.codeGenSettings.type.
GetCodegenFunction(settings) ==
    getPrefix \o
    <<ToUpperCase(settings.type.s[1])>> \o
    Slice(settings.type.s, 1, Len(settings.type.s)) \o
    codeSuffix

\* getCodegenSettings (lines 182-196): this.codeGenSettings after the call.
\* getCodegenSettings putting a fresh object in mustache.
GetCodegenSettingsFreshMustache(settings, document) ==
    [settings EXCEPT
        !.esnext = Bool(TRUE),
        !.swagger = document,
        !.type = Undefined,
        !.mustache =
            [t |-> "object",
             swaggerObject |-> document,
             swaggerJSON |-> Stringify(document),
             JSONSchemas |-> Stringify(BuildJSONSchema(document))]]

\* The three entries getCodegenSettings writes into mustache.
DerivedEntries == {"swaggerObject", "swaggerJSON", "JSONSchemas"}

\* getCodegenSettings (lines 182-196): mustache is the caller's object, or {}
\* (line 187), with the three entries set.
GetCodegenSettings(settings, document) ==
    LET mustache == OrElse(settings.mustache, EmptyObject)
    IN  [settings EXCEPT
            !.esnext = Bool(TRUE),
            !.swagger = document,
            !.type = Undefined,
            !.mustache =
                [entry \in DOMAIN mustache \cup DerivedEntries |->
                    CASE entry = "swaggerObject" -> document
                      [] entry = "swaggerJSON" -> Stringify(document)
                      [] entry = "JSONSchemas" -> Stringify(BuildJSONSchema(document))
                      [] OTHER -> mustache[entry]]]

\* The result of one synchronous run of a handler: the calls it made, the
\* shared settings it leaves, and the exception that escaped it (if any).
Run(events, settings, exception) ==
    [events |-> events, codeGenSettings |-> settings, thrown |-> exception]

\* The delivery without the completion signal.
DeliverNoCallback(vinyl, name, fileBuffer) ==
    <<Event("push", [cwd |-> vinyl.cwd, base |-> vinyl.base,
                     path |-> PathJoin(vinyl.base, name),
                     contents |-> fileBuffer])>>

\* The delivery with the completion signalled before the push.
DeliverCallbackFirst(vinyl, name, fileBuffer) ==
    <<Event("callback", NoError),
      Event("push", [cwd |-> vinyl.cwd, base |-> vinyl.base,
                     path |-> PathJoin(vinyl.base, name),
                     contents |-> fileBuffer])>>

\* The delivery at the end of parseSchema2 (lines 211-219).
Deliver(vinyl, name, fileBuffer) ==
    <<Event("push", [cwd |-> vinyl.cwd, base |-> vinyl.base,
                     path |-> PathJoin(vinyl.base, name),
                     contents |-> fileBuffer]),
      Event("callback", NoError)>>

\* parseSchema2 building the Schema Index in raw mode too and delivering its
\* serialization.
ParseSchema2RawIndex(document, use, settings, vinyl, name, engineThrows) ==
    IF use
    THEN IF settings.type.t # "string"
         THEN Run(<<>>, settings,
                  TypeError("Cannot read property '0' of undefined"))
         ELSE LET codeGenFunction == GetCodegenFunction(settings)
                  codegenSettings == GetCodegenSettings(settings, document)
                  before == <<Event("getCodegenFunction", codeGenFunction),
                              Event("buildJSONSchema", document),
                              Event("getCodegenSettings", codegenSettings)>>
              IN  IF codeGenFunction \notin EntryPoints
                  THEN Run(before, codegenSettings,
                           TypeError("CodeGen[codeGenFunction] is not a function"))
                  ELSE IF engineThrows
                  THEN Run(before \o <<Event("CodeGen", [entry |-> codeGenFunction,
                                                        settings |-> codegenSettings])>>,
                           codegenSettings, EngineError("codegen failed"))
                  ELSE Run(before
                           \o <<Event("CodeGen", [entry |-> codeGenFunction,
                                                  settings |-> codegenSettings])>>
                           \o Deliver(vinyl, name, Emit(codeGenFunction, codegenSettings)),
                           codegenSettings, Undefined)
    ELSE Run(<<Event("buildJSONSchema", document),
               Event("stringify", BuildJSONSchema(document))>>
             \o Deliver(vinyl, name, Stringify(BuildJSONSchema(document))),
             settings, Undefined)

\* parseSchema2 (lines 198-220). engineThrows: whether the entry point, once
\* called, throws.
ParseSchema2(document, use, settings, vinyl, name, engineThrows) ==
    IF use
    THEN IF settings.type.t # "string"
         THEN Run(<<>>, settings,
                  TypeError("Cannot read property '0' of undefined"))
         ELSE LET codeGenFunction == GetCodegenFunction(settings)
                  codegenSettings == GetCodegenSettings(settings, document)
                  before == <<Event("getCodegenFunction", codeGenFunction),
                              Event("buildJSONSchema", document),
                              Event("getCodegenSettings", codegenSettings)>>
              IN  IF codeGenFunction \notin EntryPoints
                  THEN Run(before, codegenSettings,
                           TypeError("CodeGen[codeGenFunction] is not a function"))
                  ELSE IF engineThrows
                  THEN Run(before \o <<Event("CodeGen", [entry |-> codeGenFunction,
                                                        settings |-> codegenSettings])>>,
                           codegenSettings, EngineError("codegen failed"))
                  ELSE Run(before
                           \o <<Event("CodeGen", [entry |-> codeGenFunction,
                                                  settings |-> codegenSettings])>>
                           \o Deliver(vinyl, name, Emit(codeGenFunction, codegenSettings)),
                           codegenSettings, Undefined)
    ELSE Run(<<Event("stringify", document)>>
             \o Deliver(vinyl, name, Stringify(document)),
             settings, Undefined)

\* validateSchema printing the warnings only when there are no errors.
ValidateSchemaWarningsElse(err, result, document, use, settings, vinyl, name, engineThrows) ==
    LET printed ==
            IF result.t = "undefined" THEN <<>>
            ELSE IF Len(result.errors) > 0
                 THEN <<Event("printErrors", result.errors)>>
                 ELSE IF Len(result.warnings) > 0
                      THEN <<Event("printWarnings", result.warnings)>> ELSE <<>>
        rest == ParseSchema2(document, use, settings, vinyl, name, engineThrows)
    IN  IF result.t # "undefined" /\ Len(result.errors) > 0
        THEN Run(printed \o <<Event("callback",
                                    PluginError("The Swagger schema is invalid"))>>,
                 settings, Undefined)
        ELSE [rest EXCEPT !.events = printed \o @]

\* validateSchema without the return after the error callback.
ValidateSchemaNoReturn(err, result, document, use, settings, vinyl, name, engineThrows) ==
    LET printed ==
            IF result.t = "undefined" THEN <<>>
            ELSE (IF Len(result.errors) > 0
                  THEN <<Event("printErrors", result.errors)>> ELSE <<>>)
                 \o (IF Len(result.warnings) > 0
                     THEN <<Event("printWarnings", result.warnings)>> ELSE <<>>)
        rest == ParseSchema2(document, use, settings, vinyl, name, engineThrows)
    IN  IF result.t # "undefined" /\ Len(result.errors) > 0
        THEN [rest EXCEPT !.events =
                printed \o <<Event("callback",
                                   PluginError("The Swagger schema is invalid"))>> \o @]
        ELSE [rest EXCEPT !.events = printed \o @]

\* validateSchema (lines 153-172).
ValidateSchema(err, result, document, use, settings, vinyl, name, engineThrows) ==
    LET printed ==
            IF result.t = "undefined" THEN <<>>
            ELSE (IF Len(result.errors) > 0
                  THEN <<Event("printErrors", result.errors)>> ELSE <<>>)
                 \o (IF Len(result.warnings) > 0
                     THEN <<Event("printWarnings", result.warnings)>> ELSE <<>>)
        rest == ParseSchema2(document, use, settings, vinyl, name, engineThrows)
    IN  IF result.t # "undefined" /\ Len(result.errors) > 0
        THEN Run(printed \o <<Event("callback",
                                    PluginError("The Swagger schema is invalid"))>>,
                 settings, Undefined)
        ELSE [rest EXCEPT !.events = printed \o @]

\* throughObj (lines 297-305) with the constructor and process() up to the
\* call of swaggerParser.dereference.
ThroughObj(f, stream) ==
    /\ configState = "ready"
    /\ pc[f] = "idle"
    /\ IF f = 1 THEN TRUE ELSE pc[f - 1] # "idle"
    /\ file' = [file EXCEPT ![f] = VinylFile(DocOf(f), stream)]
    /\ IF stream
       THEN /\ thrown' = [thrown EXCEPT ![f] = PluginError("Streaming not supported")]
            /\ pc' = [pc EXCEPT ![f] = "thrown"]
            /\ UNCHANGED log
       ELSE /\ log' = [log EXCEPT ![f] =
                         <<Event("dereference", [source |-> file'[f].history[1],
                                                 options |-> dereferenceOptions])>>]
            /\ pc' = [pc EXCEPT ![f] = "dereference"]
            /\ UNCHANGED thrown
    /\ UNCHANGED <<swaggerObject, codeGenSettings>>
    /\ UNCHANGED configVars

\* The callback starting the resolution again when it fails.
DereferenceCallbackRetry(error, document) ==
    IF error.t # "undefined"
    THEN [events |-> <<Event("dereference", [source |-> "retry",
                                             options |-> dereferenceOptions])>>,
          swaggerObject |-> Undefined, pc |-> "dereference"]
    ELSE [events |-> <<Event("validate", document)>>,
          swaggerObject |-> document, pc |-> "validate"]

\* The callback without the return after the error is reported.
DereferenceCallbackNoReturn(error, document) ==
    [events |-> (IF error.t # "undefined"
                 THEN <<Event("callback", PluginError(error.message))>> ELSE <<>>)
                \o <<Event("validate", document)>>,
     swaggerObject |-> document, pc |-> "validate"]

\* The callback of swaggerParser.dereference (lines 134-142), and parseSchema
\* (lines 145-151) which it calls: the calls made, this.swaggerObject and
\* where the invocation is afterwards.
DereferenceCallback(error, document) ==
    IF error.t # "undefined"
    THEN [events |-> <<Event("callback", PluginError(error.message))>>,
          swaggerObject |-> Undefined, pc |-> "done"]
    ELSE [events |-> <<Event("validate", document)>>,
          swaggerObject |-> document, pc |-> "validate"]

\* swaggerParser.dereference calls back with an error.
DereferenceFailed(f) ==
    LET error == EngineError("dereference failed")
        run == DereferenceCallback(error, Undefined)
    IN  /\ pc[f] = "dereference"
        /\ log' = [log EXCEPT ![f] =
                      @ \o <<Event("dereferenced", [error |-> error])>> \o run.events]
        /\ swaggerObject' = [swaggerObject EXCEPT ![f] = run.swaggerObject]
        /\ pc' = [pc EXCEPT ![f] = run.pc]
        /\ UNCHANGED <<file, thrown, codeGenSettings>>
        /\ UNCHANGED configVars

\* swaggerParser.dereference calls back with the document, resolved under
\* the options it was given.
DereferenceSucceeded(f) ==
    LET call == log[f][1].arg
        document == Dereference(DocumentAt(call.source), call.options.internal)
        run == DereferenceCallback(Undefined, document)
    IN  /\ pc[f] = "dereference"
        /\ log' = [log EXCEPT ![f] =
                      @ \o <<Event("dereferenced", [error |-> Undefined])>> \o run.events]
        /\ swaggerObject' = [swaggerObject EXCEPT ![f] = run.swaggerObject]
        /\ pc' = [pc EXCEPT ![f] = run.pc]
        /\ UNCHANGED <<file, thrown, codeGenSettings>>
        /\ UNCHANGED configVars

\* The callback of swaggerTools.validate reading the document from a place
\* all invocations share: it sees the one stored last.
ValidateCallbackSharedDocument(f, outcome, engineThrows) ==
    LET stored == {g \in Files : swaggerObject[g] # Undefined}
        latest == CHOOSE g \in stored : \A h \in stored : h <= g
        run == ValidateSchema(outcome.err, outcome.result, swaggerObject[latest],
                              useCodeGen, codeGenSettings, file[f], filename,
                              engineThrows)
    IN  /\ pc[f] = "validate"
        /\ log' = [log EXCEPT ![f] =
                      @ \o <<Event("validated", outcome)>> \o run.events]
        /\ codeGenSettings' = run.codeGenSettings
        /\ thrown' = [thrown EXCEPT ![f] = run.thrown]
        /\ pc' = [pc EXCEPT ![f] = IF run.thrown = Undefined THEN "done" ELSE "thrown"]
        /\ UNCHANGED <<file, swaggerObject>>
        /\ UNCHANGED configVars

\* The callback of swaggerTools.validate (lines 148-150): validateSchema and
\* everything it calls, run to completion.
ValidateCallback(f, outcome, engineThrows) ==
    LET run == ValidateSchema(outcome.err, outcome.result, swaggerObject[f],
                              useCodeGen, codeGenSettings, file[f], filename,
                              engineThrows)
    IN  /\ pc[f] = "validate"
        /\ log' = [log EXCEPT ![f] =
                      @ \o <<Event("validated", outcome)>> \o run.events]
        /\ codeGenSettings' = run.codeGenSettings
        /\ thrown' = [thrown EXCEPT ![f] = run.thrown]
        /\ pc' = [pc EXCEPT ![f] = IF run.thrown = Undefined THEN "done" ELSE "thrown"]
        /\ UNCHANGED <<file, swaggerObject>>
        /\ UNCHANGED configVars

Next ==
    \/ \E a \in FilenameArgs, o \in OptionsArgs, d \in Disks : GulpSwagger(a, o, d)
    \/ \E f \in Files, stream \in BOOLEAN : ThroughObj(f, stream)
    \/ \E f \in Files : DereferenceFailed(f)
    \/ \E f \in Files : DereferenceSucceeded(f)
    \/ \E f \in Files, o \in ValidateOutcomes, e \in BOOLEAN : ValidateCallback(f, o, e)

\* Any order of the callbacks of the files in flight.
Spec == Init /\ [][Next]_vars

\* through.obj (line 306) as a Transform stream runs: it hands the next file to
\* throughObj only after the callback of the previous file was called.
ThroughObjSerial(f, stream) ==
    /\ IF f = 1 THEN TRUE
       ELSE \E i \in DOMAIN log[f - 1] : log[f - 1][i].op = "callback"
    /\ ThroughObj(f, stream)

NextSerial ==
    \/ \E a \in FilenameArgs, o \in OptionsArgs, d \in Disks : GulpSwagger(a, o, d)
    \/ \E f \in Files, stream \in BOOLEAN : ThroughObjSerial(f, stream)
    \/ \E f \in Files : DereferenceFailed(f)
    \/ \E f \in Files : DereferenceSucceeded(f)
    \/ \E f \in Files, o \in ValidateOutcomes, e \in BOOLEAN : ValidateCallback(f, o, e)

\* One file at a time.
SpecSerial == Init /\ [][NextSerial]_vars

\* The two asynchronous calls of an invocation respond: swaggerParser
\* .dereference calls its callback (line 134) and swaggerTools.validate calls
\* its callback (line 148), each some time after it was called.
Responds(f) ==
    /\ WF_vars(DereferenceFailed(f) \/ DereferenceSucceeded(f))
    /\ WF_vars(\E o \in ValidateOutcomes, e \in BOOLEAN : ValidateCallback(f, o, e))

\* One file at a time, every call that was made being answered.
SpecSerialLive == Init /\ [][NextSerial]_vars /\ \A f \in Files : Responds(f)

\* ---------------------------------------------- buildJSONSchema on its own
\* The extractor applied to documents that may lack any of their parts.
MaxParameters == 2

SchemaValues == {Schema("array"), Schema("object")}

ParameterValues ==
    {[in |-> "query"], [in |-> "body"]}
        \cup {[in |-> "body", schema |-> schema] : schema \in SchemaValues}

ParameterLists == UNION {[1..n -> ParameterValues] : n \in 0..MaxParameters}

ResponseValues ==
    {Null, [description |-> "no schema"], [schema |-> Schema("array")]}

StatusCodes == {"200", "default"}

ResponseMaps == UNION {[codes -> ResponseValues] : codes \in SUBSET StatusCodes}

Operations ==
    {Null, [summary |-> "neither"]}
        \cup {[parameters |-> parameters] : parameters \in ParameterLists}
        \cup {[responses |-> responses] : responses \in ResponseMaps}
        \cup {[parameters |-> parameters, responses |-> responses] :
                parameters \in ParameterLists, responses \in ResponseMaps}

PlainOperation == [responses |-> [code \in {"200"} |-> [schema |-> Schema("object")]]]

PathEntries ==
    {Null, <<>>}
        \cup {[method \in {"get"} |-> operation] : operation \in Operations}
        \cup {[method \in {"get", "post"} |->
                    IF method = "get" THEN operation ELSE PlainOperation] :
                operation \in Operations}

ExtractDocs ==
    {[swagger |-> "2.0"]}
        \cup {[swagger |-> "2.0", paths |-> [path \in {"/a"} |-> entry]] :
                entry \in PathEntries}
        \cup {[swagger |-> "2.0",
               paths |-> [path \in {"/a", "/b"} |->
                            IF path = "/a" THEN entry ELSE Null]] :
                entry \in PathEntries}

InitExtract ==
    /\ configState = "ready"
    /\ configError = Undefined
    /\ filename = Str("api.ts")
    /\ useCodeGen = TRUE
    /\ codeGenSettings = Undefined
    /\ configured = Undefined
    /\ pc = [f \in Files |-> IF f = 1 THEN "extract" ELSE "idle"]
    /\ file = [f \in Files |-> Undefined]
    /\ \E document \in ExtractDocs :
          swaggerObject = [f \in Files |-> IF f = 1 THEN document ELSE Undefined]
    /\ log = [f \in Files |-> <<>>]
    /\ thrown = [f \in Files |-> Undefined]

\* One call of buildJSONSchema(swaggerObject): it returns the index or raises.
CallBuildJSONSchema(f) ==
    /\ pc[f] = "extract"
    /\ IF BuildJSONSchemaThrows(swaggerObject[f])
       THEN /\ log' = [log EXCEPT ![f] =
                         <<Event("buildJSONSchema", swaggerObject[f])>>]
            /\ thrown' = [thrown EXCEPT ![f] =
                            TypeError("Cannot read property of null")]
            /\ pc' = [pc EXCEPT ![f] = "thrown"]
       ELSE /\ log' = [log EXCEPT ![f] =
                         <<Event("buildJSONSchema", swaggerObject[f]),
                           Event("JSONSchemas", BuildJSONSchema(swaggerObject[f]))>>]
            /\ pc' = [pc EXCEPT ![f] = "done"]
            /\ UNCHANGED thrown
    /\ UNCHANGED <<file, swaggerObject, codeGenSettings>>
    /\ UNCHANGED configVars

NextExtract == \E f \in Files : CallBuildJSONSchema(f)

SpecExtract == InitExtract /\ [][NextExtract]_vars

\* ------------------------------------------------------- reading the log
Has(f, op) == \E i \in DOMAIN log[f] : log[f][i].op = op
Count(f, op) == Cardinality({i \in DOMAIN log[f] : log[f][i].op = op})
\* The position of the first call of op (0 when there is none).
First(f, op) ==
    IF Has(f, op) THEN CHOOSE i \in DOMAIN log[f] :
                            /\ log[f][i].op = op
                            /\ \A j \in 1..(i - 1) : log[f][j].op # op
    ELSE 0
ArgOf(f, op) == log[f][First(f, op)].arg

\* The stages after validation.
LaterStages ==
    {"getCodegenFunction", "buildJSONSchema", "getCodegenSettings", "CodeGen",
     "stringify", "push"}

\* The checker answered with a result that carries at least one error.
ErrorsReported(f) ==
    /\ Has(f, "validated")
    /\ ArgOf(f, "validated").result.t = "object"
    /\ Len(ArgOf(f, "validated").result.errors) > 0

\* The checker answered with a result without errors and with warnings.
WarningsOnly(f) ==
    /\ Has(f, "validated")
    /\ ArgOf(f, "validated").result.t = "object"
    /\ Len(ArgOf(f, "validated").result.errors) = 0
    /\ Len(ArgOf(f, "validated").result.warnings) > 0

\* The checker call itself failed: an error and no result.
CheckerFailed(f) ==
    /\ Has(f, "validated")
    /\ ArgOf(f, "validated").err.t # "undefined"
    /\ ArgOf(f, "validated").result.t = "undefined"

\* Completion was signalled without an error / with an error.
CompletedOk(f) == Has(f, "callback") /\ ArgOf(f, "callback") = NoError
CompletedWithError(f) == Has(f, "callback") /\ ArgOf(f, "callback") # NoError

\* ----------------------------------------------------------------- claims
\* C1: whenever the checker returned a result with at least one error, the
\* invocation made no second resolution call, no extraction, emission or
\* serialization call, handed nothing to push, and signalled completion once,
\* with a PluginError whose message is "The Swagger schema is invalid".
C1_ValidationGating ==
    \A f \in Files : ErrorsReported(f) =>
        /\ Count(f, "dereference") = 1
        /\ \A op \in LaterStages : ~Has(f, op)
        /\ Count(f, "callback") = 1
        /\ ArgOf(f, "callback") = PluginError("The Swagger schema is invalid")
        /\ log[f][Len(log[f])].op = "callback"
        /\ pc[f] = "done"

\* A run in which one file was rejected with errors and warnings while the
\* stream is configured for code generation.
C1_Witness ==
    \E f \in Files :
        /\ ErrorsReported(f)
        /\ Len(ArgOf(f, "validated").result.warnings) > 0
        /\ useCodeGen
        /\ pc[f] = "done"

\* The invocation passed the validation gate.
PassedValidation(f) == Has(f, "validated") /\ ~ErrorsReported(f)

\* C2: whenever the checker call itself failed (an error, no result), no later
\* stage ran, nothing was handed to push, and completion was signalled once,
\* with the checker's error.
C2_CheckerFailureAborts ==
    \A f \in Files : CheckerFailed(f) =>
        /\ \A op \in LaterStages : ~Has(f, op)
        /\ Count(f, "callback") = 1
        /\ CompletedWithError(f)
        /\ ArgOf(f, "callback").message = ArgOf(f, "validated").err.message

\* C3: every invocation that passed validation called the resolution engine a
\* second time, after validation, with the policy that follows intra-document
\* references, and the document it serialized, extracted from or emitted from
\* holds no reference of any kind.
C3_FullResolution ==
    \A f \in Files : PassedValidation(f) =>
        /\ Count(f, "dereference") = 2
        /\ \E i \in DOMAIN log[f] :
              /\ log[f][i].op = "dereference"
              /\ i > First(f, "validated")
              /\ log[f][i].arg.options.internal
        /\ Has(f, "stringify") => ~HasRefs(ArgOf(f, "stringify"))
        /\ Has(f, "buildJSONSchema") => ~HasRefs(ArgOf(f, "buildJSONSchema"))
        /\ Has(f, "CodeGen") => ~HasRefs(ArgOf(f, "CodeGen").settings.swagger)

\* What the invocation did from the checker's answer on.
AfterValidation(f) == SubSeq(log[f], First(f, "validated") + 1, Len(log[f]))

\* C4: with code generation enabled, every invocation did, from the checker's
\* answer on, exactly what it would have done as the only invocation of the
\* configured stream (for some behaviour of the emission engine).
C4_IndependentInvocations ==
    \A f \in Files : (useCodeGen /\ Has(f, "validated")) =>
        \E engineThrows \in BOOLEAN :
            LET answer == ArgOf(f, "validated")
                alone == ValidateSchema(answer.err, answer.result, swaggerObject[f],
                                        useCodeGen, configured, file[f], filename,
                                        engineThrows)
            IN  /\ AfterValidation(f) = alone.events
                /\ thrown[f] = alone.thrown

\* The emission of an invocation failed: the entry point named for the mode
\* is absent, or the entry point threw.
EmissionFailed(f) ==
    /\ Has(f, "getCodegenFunction")
    /\ \/ ArgOf(f, "getCodegenFunction") \notin EntryPoints
       \/ thrown[f] = EngineError("codegen failed")

\* C5: whenever the emission failed, completion was signalled with a
\* PluginError and nothing was handed to push.
C5_EmissionErrorSurfaced ==
    \A f \in Files : EmissionFailed(f) =>
        /\ ~Has(f, "push")
        /\ Has(f, "callback")
        /\ ArgOf(f, "callback").t = "PluginError"

\* The emission engine has an entry point for the configured mode and did not
\* throw in this invocation.
EngineHealthy(f) ==
    useCodeGen =>
        /\ GetCodegenFunction(configured) \in EntryPoints
        /\ thrown[f] # EngineError("codegen failed")

\* C6: whenever the checker returned no error and at least one warning (and
\* the emission engine works), the invocation reached serialization or
\* emission, handed an artifact to push and signalled completion without an
\* error.
C6_WarningsOnlyPassThrough ==
    \A f \in Files : (WarningsOnly(f) /\ EngineHealthy(f)) =>
        /\ Has(f, "stringify") \/ Has(f, "CodeGen")
        /\ Has(f, "push")
        /\ CompletedOk(f)

\* C7: an artifact is handed to push if and only if completion is signalled
\* without an error; it is handed over at most once, under the path joined
\* from the file's base and the configured file name, and before the
\* completion signal; completion is signalled at most once, and an invocation
\* that completed with an error handed nothing over.
C7_AllOrNothingDelivery ==
    \A f \in Files :
        /\ Count(f, "push") <= 1
        /\ Count(f, "callback") <= 1
        /\ Has(f, "push") <=> CompletedOk(f)
        /\ Has(f, "push") =>
              /\ ArgOf(f, "push").path = PathJoin(file[f].base, filename)
              /\ ArgOf(f, "push").path.file = Str("api.ts")
              /\ First(f, "push") < First(f, "callback")
        /\ CompletedWithError(f) => ~Has(f, "push")

\* One invocation delivered its artifact and another completed with an error.
C7_Witness ==
    \E f, g \in Files :
        /\ Has(f, "push") /\ CompletedOk(f)
        /\ CompletedWithError(g) /\ ~Has(g, "push")

\* The partial-resolution call of the invocation returned an error.
ResolutionFailed(f) ==
    /\ Has(f, "dereferenced")
    /\ ArgOf(f, "dereferenced").error.t # "undefined"

\* C8: whenever the partial-resolution call (intra-document references left
\* intact) returned an error, the checker was not invoked, no later stage ran,
\* nothing was handed to push, and completion was signalled once, with a
\* PluginError carrying the engine's message.
C8_ResolutionFailureShortCircuits ==
    \A f \in Files : ResolutionFailed(f) =>
        /\ log[f][1].op = "dereference"
        /\ ~log[f][1].arg.options.internal
        /\ Count(f, "dereference") = 1
        /\ ~Has(f, "validate") /\ ~Has(f, "validated")
        /\ ~Has(f, "printErrors") /\ ~Has(f, "printWarnings")
        /\ \A op \in LaterStages : ~Has(f, op)
        /\ Count(f, "callback") = 1
        /\ ArgOf(f, "callback") =
              PluginError(ArgOf(f, "dereferenced").error.message)
        /\ pc[f] = "done"

\* The resolution of one file failed while another file went on to validation.
C8_Witness ==
    \E f, g \in Files :
        /\ ResolutionFailed(f) /\ pc[f] = "done"
        /\ Has(g, "validated")

\* The template of the configured settings carries no text at all.
NoTemplateText(settings) ==
    \/ Falsy(settings.template)
    \/ /\ settings.template.t = "object"
       /\ settings.template.class.v = ""
       /\ settings.template.method.v = ""
       /\ settings.template.request.v = ""

getVueCode == <<"g", "e", "t", "V", "u", "e", "C", "o", "d", "e">>

\* The entry point the naming convention gives each mode.
ExpectedEntry(mode) ==
    CASE mode = nodeType -> getNodeCode
      [] mode = angularType -> getAngularCode
      [] mode = customType -> getCustomCode
      [] mode = vueType -> getVueCode

\* C10: the name an invocation computes, and the entry point it invokes, is
\* "get" + the configured mode capitalized + "Code"; the name is computed
\* before the settings are built, and the settings built and passed to the
\* entry point no longer carry the mode.
C10_ModeDispatch ==
    \A f \in Files :
        /\ Has(f, "getCodegenFunction") =>
              /\ ArgOf(f, "getCodegenFunction") = ExpectedEntry(configured.type.s)
              /\ First(f, "getCodegenFunction") < First(f, "getCodegenSettings")
              /\ ArgOf(f, "getCodegenSettings").type = Undefined
        /\ Has(f, "CodeGen") =>
              /\ ArgOf(f, "CodeGen").entry = ExpectedEntry(configured.type.s)
              /\ ArgOf(f, "CodeGen").entry = ArgOf(f, "getCodegenFunction")
              /\ ArgOf(f, "CodeGen").settings.type = Undefined

\* An invocation of a stream configured for mode "angular" invoked
\* getAngularCode and delivered what it returned.
C10_Witness ==
    \E f \in Files :
        /\ configured.t = "object"
        /\ configured.type = Chars(angularType)
        /\ Has(f, "CodeGen")
        /\ ArgOf(f, "CodeGen").entry = getAngularCode
        /\ Has(f, "push")

\* ------------------------------------------------------ extractor claims
\* What the document declares, read off the document itself.
Extracted(f) == Has(f, "JSONSchemas")
ExtractInput(f) == ArgOf(f, "buildJSONSchema")
ExtractIndex(f) == ArgOf(f, "JSONSchemas")

DeclaredPaths(document) ==
    IF "paths" \in DOMAIN document THEN DOMAIN document.paths ELSE {}

DeclaredMethods(document, path) ==
    IF IsNullish(document.paths[path]) THEN {} ELSE DOMAIN document.paths[path]

DeclaredCodes(document, path, method) ==
    IF "responses" \in DOMAIN document.paths[path][method]
    THEN DOMAIN document.paths[path][method].responses ELSE {}

DeclaredSchema(definition) ==
    IF "schema" \in DOMAIN definition /\ definition.schema # Undefined
    THEN definition.schema ELSE [t |-> "object"]

DeclaredParameters(document, path, method) ==
    IF "parameters" \in DOMAIN document.paths[path][method]
    THEN document.paths[path][method].parameters ELSE <<>>

BodyPositions(parameters) ==
    {i \in DOMAIN parameters : parameters[i].in = "body"}

FirstBodyPosition(parameters) ==
    CHOOSE i \in BodyPositions(parameters) :
        \A j \in BodyPositions(parameters) : i <= j

\* C11: the index returned by the extractor has exactly the path keys of the
\* document, under each path exactly the method keys declared there (none for
\* a path with no methods), and under each method a responses mapping with
\* exactly the declared status codes, each mapped to the declared schema or
\* to an empty object when the response declares none.
C11_CompleteExtraction ==
    \A f \in Files :
        Extracted(f) =>
            LET document == ExtractInput(f)
                index == ExtractIndex(f)
            IN  /\ DOMAIN index = DeclaredPaths(document)
                /\ \A path \in DeclaredPaths(document) :
                      /\ DOMAIN index[path] = DeclaredMethods(document, path)
                      /\ \A method \in DeclaredMethods(document, path) :
                            /\ DOMAIN index[path][method].responses
                                  = DeclaredCodes(document, path, method)
                            /\ \A code \in DeclaredCodes(document, path, method) :
                                  index[path][method].responses[code]
                                    = DeclaredSchema(
                                        document.paths[path][method].responses[code])

\* An index was returned for a document with a path that has no methods and a
\* method whose responses include one with a schema and one without.
C11_Witness ==
    \E f \in Files :
        /\ Extracted(f)
        /\ DeclaredPaths(ExtractInput(f)) = {"/a", "/b"}
        /\ DeclaredMethods(ExtractInput(f), "/b") = {}
        /\ "get" \in DeclaredMethods(ExtractInput(f), "/a")
        /\ DeclaredCodes(ExtractInput(f), "/a", "get") = {"200", "default"}
        /\ ExtractIndex(f)["/a"]["get"].responses["200"] = Schema("array")
        /\ ExtractIndex(f)["/a"]["get"].responses["default"] = [t |-> "object"]

\* C12: the request schema of a method is the schema of the first parameter
\* declared with location "body", even when that parameter carries no schema
\* and a later body parameter does; with no body parameter the request schema
\* is undefined, not an empty object.
C12_RequestSchemaSelection ==
    \A f \in Files :
        Extracted(f) =>
            \A path \in DeclaredPaths(ExtractInput(f)) :
                \A method \in DeclaredMethods(ExtractInput(f), path) :
                    LET parameters == DeclaredParameters(ExtractInput(f), path, method)
                        request == ExtractIndex(f)[path][method].request
                    IN  IF BodyPositions(parameters) = {}
                        THEN request = Undefined
                        ELSE LET first == parameters[FirstBodyPosition(parameters)]
                             IN  IF "schema" \in DOMAIN first
                                 THEN request = first.schema
                                 ELSE request = Undefined

\* An index was returned for a method whose first body parameter has no schema
\* and whose second body parameter has one: the request schema is undefined.
C12_Witness ==
    \E f \in Files :
        /\ Extracted(f)
        /\ "/a" \in DeclaredPaths(ExtractInput(f))
        /\ "get" \in DeclaredMethods(ExtractInput(f), "/a")
        /\ DeclaredParameters(ExtractInput(f), "/a", "get")
              = <<[in |-> "body"], [in |-> "body", schema |-> Schema("array")]>>
        /\ ExtractIndex(f)["/a"]["get"].request = Undefined

\* C13: the extractor never fails: for every document it is applied to it
\* returns an index, whatever fields the document lacks.
C13_TotalExtraction ==
    \A f \in Files :
        Has(f, "buildJSONSchema") =>
            /\ thrown[f] = Undefined
            /\ Extracted(f)

\* -------------------------------------------------------- pipeline claims
\* The stage a call belongs to: 1 partial resolution, 2 validation (with its
\* diagnostics), 3 full resolution, 4 emission or serialization, 5 delivery,
\* 6 completion.
StageOf(op) ==
    CASE op \in {"dereference", "dereferenced"} -> 1
      [] op \in {"validate", "validated", "printErrors", "printWarnings"} -> 2
      [] op \in {"getCodegenFunction", "buildJSONSchema", "getCodegenSettings",
                 "CodeGen", "stringify"} -> 4
      [] op = "push" -> 5
      [] op = "callback" -> 6
      [] OTHER -> 3

StageCalls ==
    {"dereference", "dereferenced", "validate", "validated", "printErrors",
     "printWarnings", "getCodegenFunction", "buildJSONSchema",
     "getCodegenSettings", "CodeGen", "stringify", "push", "callback"}

\* C14: within one invocation the calls occur in the order partial
\* resolution, validation, (full resolution,) emission or serialization,
\* delivery, completion; no call is made twice; the checker is called only
\* after the resolution call succeeded, and on the document it returned;
\* nothing follows the completion signal, and an invocation stopped by an
\* exception neither delivers nor completes.
C14_SingleAttemptFixedOrder ==
    \A f \in Files :
        /\ \A i, j \in DOMAIN log[f] :
              i < j => StageOf(log[f][i].op) <= StageOf(log[f][j].op)
        /\ \A op \in StageCalls : Count(f, op) <= 1
        /\ \A i \in DOMAIN log[f] : log[f][i].op \in StageCalls
        /\ Has(f, "validate") =>
              /\ Has(f, "dereferenced")
              /\ First(f, "dereferenced") < First(f, "validate")
              /\ ArgOf(f, "dereferenced").error = Undefined
              /\ ArgOf(f, "validate")
                    = Dereference(DocumentAt(ArgOf(f, "dereference").source),
                                  ArgOf(f, "dereference").options.internal)
              /\ ArgOf(f, "validate") = swaggerObject[f]
        /\ Has(f, "callback") => First(f, "callback") = Len(log[f])
        /\ thrown[f] # Undefined => ~Has(f, "push") /\ ~Has(f, "callback")

\* An invocation ran every stage the code has, diagnostics included, and
\* another one stopped at the failed resolution.
C14_Witness ==
    \E f, g \in Files :
        /\ Has(f, "printWarnings")
        /\ Has(f, "CodeGen")
        /\ Has(f, "push")
        /\ Has(f, "callback")
        /\ Has(g, "dereferenced")
        /\ ArgOf(g, "dereferenced").error # Undefined
        /\ pc[g] = "done"

\* The findings the checker returned to the invocation, none when it returned
\* no result.
ReturnedErrors(f) ==
    IF ArgOf(f, "validated").result.t = "undefined" THEN <<>>
    ELSE ArgOf(f, "validated").result.errors

ReturnedWarnings(f) ==
    IF ArgOf(f, "validated").result.t = "undefined" THEN <<>>
    ELSE ArgOf(f, "validated").result.warnings

\* C15: the errors the checker returned are printed exactly when there are
\* some, and so are the warnings, each set whole and independently of the
\* other; when there are errors, whatever is printed is printed before the
\* completion is signalled with the invalid-schema error.
C15_FindingsBeforeFatalError ==
    \A f \in Files :
        Has(f, "validated") =>
            /\ Has(f, "printErrors") <=> ReturnedErrors(f) # <<>>
            /\ Has(f, "printWarnings") <=> ReturnedWarnings(f) # <<>>
            /\ Has(f, "printErrors") => ArgOf(f, "printErrors") = ReturnedErrors(f)
            /\ Has(f, "printWarnings") => ArgOf(f, "printWarnings") = ReturnedWarnings(f)
            /\ ReturnedErrors(f) # <<>> =>
                  /\ Has(f, "callback")
                  /\ ArgOf(f, "callback") = PluginError("The Swagger schema is invalid")
                  /\ First(f, "printErrors") < First(f, "callback")
                  /\ ReturnedWarnings(f) # <<>> =>
                        First(f, "printWarnings") < First(f, "callback")

\* The checker returned errors and warnings: both were printed, then the
\* invocation completed with the invalid-schema error.
C15_Witness ==
    \E f \in Files :
        /\ Has(f, "validated")
        /\ ReturnedErrors(f) # <<>>
        /\ ReturnedWarnings(f) # <<>>
        /\ Has(f, "printErrors")
        /\ Has(f, "printWarnings")
        /\ pc[f] = "done"
        /\ ArgOf(f, "callback") = PluginError("The Swagger schema is invalid")

\* The invocation ran in raw mode: the stream was configured without codegen.
RawMode == configState = "ready" /\ ~useCodeGen

\* The JSON text of a value, as JSON.stringify gives it.
JsonTextOf(x) == [t |-> "string", json |-> x]

\* The checker found nothing to report.
CleanValidation(f) ==
    /\ Has(f, "validated")
    /\ ReturnedErrors(f) = <<>>
    /\ ReturnedWarnings(f) = <<>>

\* C16: in raw mode the artifact delivered is the JSON serialization of the
\* document the resolution returned; the extractor, the settings builder and
\* the emission engine are never called; and for a source document without
\* references that the checker finds clean, the artifact is the serialization
\* of the source document itself.
C16_RawMode ==
    RawMode =>
        \A f \in Files :
            /\ ~Has(f, "getCodegenFunction")
            /\ ~Has(f, "buildJSONSchema")
            /\ ~Has(f, "getCodegenSettings")
            /\ ~Has(f, "CodeGen")
            /\ Has(f, "push") =>
                  /\ ArgOf(f, "push").contents = JsonTextOf(swaggerObject[f])
                  /\ swaggerObject[f]
                        = Dereference(DocOf(f), dereferenceOptions.internal)
                  /\ ~HasRefs(DocOf(f)) /\ CleanValidation(f) =>
                        ArgOf(f, "push").contents = JsonTextOf(DocOf(f))

\* Raw mode delivered two artifacts: one for a clean document without
\* references, one for a document whose external reference was resolved.
C16_Witness ==
    /\ RawMode
    /\ \E f, g \in Files :
          /\ Has(f, "push")
          /\ ~HasRefs(DocOf(f))
          /\ CleanValidation(f)
          /\ ArgOf(f, "push").contents = JsonTextOf(DocOf(f))
          /\ Has(g, "push")
          /\ HasRefs(DocOf(g))
          /\ ArgOf(g, "push").contents # JsonTextOf(DocOf(g))

\* The settings the emission engine received from the invocation.
EngineSettings(f) == ArgOf(f, "CodeGen").settings

\* The three derived entries of the settings describe the document.
Describes(settings, document) ==
    /\ settings.mustache.swaggerObject = document
    /\ settings.mustache.swaggerJSON = JsonTextOf(document)
    /\ settings.mustache.JSONSchemas = JsonTextOf(BuildJSONSchema(document))

\* Every entry of the configured mustache object other than the derived ones
\* is in the settings with the same value.
OtherEntriesKept(settings) ==
    configured.mustache.t = "object" =>
        \A entry \in DOMAIN configured.mustache \ DerivedEntries :
            /\ entry \in DOMAIN settings.mustache
            /\ settings.mustache[entry] = configured.mustache[entry]

\* The fields the caller supplied (or gulpSwagger defaulted), apart from the
\* mode and the template-context object.
SuppliedFields ==
    {field \in DOMAIN configured \ {"t", "type", "mustache"} :
        configured[field] # Undefined}

\* C17 as stated: the settings passed to the emission engine carry the
\* document, its serialization and the serialization of its Schema Index in
\* mustache, carry no mode, and every other field the caller supplied is
\* unchanged.
C17_SettingsBuilderEffect ==
    \A f \in Files :
        Has(f, "CodeGen") =>
            /\ Describes(EngineSettings(f), swaggerObject[f])
            /\ EngineSettings(f).type = Undefined
            /\ OtherEntriesKept(EngineSettings(f))
            /\ \A field \in SuppliedFields :
                  EngineSettings(f)[field] = configured[field]

\* C17 amended: as stated, except that esnext and swagger are overwritten,
\* with true and with the document.
C17_SettingsBuilderEffectAmended ==
    \A f \in Files :
        Has(f, "CodeGen") =>
            /\ Describes(EngineSettings(f), swaggerObject[f])
            /\ EngineSettings(f).type = Undefined
            /\ OtherEntriesKept(EngineSettings(f))
            /\ \A field \in SuppliedFields \ {"esnext", "swagger"} :
                  EngineSettings(f)[field] = configured[field]
            /\ EngineSettings(f).esnext = Bool(TRUE)
            /\ EngineSettings(f).swagger = swaggerObject[f]

\* The engine was called with settings whose naming and mustache title the
\* caller supplied, along with esnext false.
C17_Witness ==
    \E f \in Files :
        /\ Has(f, "CodeGen")
        /\ configured.esnext = Bool(FALSE)
        /\ configured.mustache.t = "object"
        /\ EngineSettings(f).mustache.title = Str("Pets")
        /\ EngineSettings(f).moduleName = Str("Pets")
        /\ EngineSettings(f).esnext = Bool(TRUE)

\* C18: in raw mode an invocation whose resolution call and checker call
\* respond signals completion, and never signals it more than once.
C18_RawModeCompletesOnce ==
    \A f \in Files :
        /\ (RawMode /\ pc[f] = "dereference") ~> (Count(f, "callback") = 1)
        /\ [](RawMode => Count(f, "callback") <= 1)

\* A raw-mode invocation got both responses and signalled completion once.
C18_Witness ==
    /\ RawMode
    /\ \E f \in Files :
          /\ Has(f, "dereferenced")
          /\ Has(f, "validated")
          /\ pc[f] = "done"
          /\ Count(f, "callback") = 1

\* C19: whatever the order in which the callbacks of the invocations in
\* flight run, the settings the emission engine receives in an invocation
\* describe the document resolved from that invocation's own file: the
\* document, its serialization and the serialization of its Schema Index.
C19_OwnDocumentInSettings ==
    \A f \in Files :
        Has(f, "CodeGen") =>
            LET own == Dereference(DocumentAt(file[f].history[1]),
                                   dereferenceOptions.internal)
            IN  /\ swaggerObject[f] = own
                /\ EngineSettings(f).swagger = own
                /\ Describes(EngineSettings(f), own)
                /\ \A g \in Files \ {f} :
                      swaggerObject[g] # Undefined /\ swaggerObject[g] # own =>
                          /\ EngineSettings(f).swagger # swaggerObject[g]
                          /\ ~Describes(EngineSettings(f), swaggerObject[g])

\* The engine was called in an invocation while another invocation, holding
\* another document, was waiting for the checker.
C19_Witness ==
    \E f, g \in Files :
        /\ f # g
        /\ Has(f, "CodeGen")
        /\ Has(g, "validate")
        /\ swaggerObject[g] # Undefined
        /\ swaggerObject[g] # swaggerObject[f]
        /\ pc[g] = "validate"

====
